---- MODULE Spec2Model ----
(***************************************************************************)
(* Model of src/src/components/Fish.vue: the refraction geometry of the    *)
(* "archer fish" simulation and the handlers that reconcile its state      *)
(* (mouse drags, the three watchers, the mount hook), together with the    *)
(* scheduling of Vue's watcher jobs.                                       *)
(*                                                                         *)
(* JavaScript Numbers are modelled as tagged fixed-point values            *)
(*   [k |-> "fin", v |-> i]   a finite number, i counted in a unit         *)
(*   [k |-> "inf", v |-> s]   +Infinity (s = 1) or -Infinity (s = -1)      *)
(*   [k |-> "nan", v |-> 0]   NaN                                          *)
(* Units: coordinates in 1/PosScale pixel, angles in 1/DegScale degree,    *)
(* sines and cosines in 1/TrigScale, tangents in 1/TanScale, slopes in     *)
(* 1/SlopeScale, the refractive index in 1/IndexScale.                     *)
(***************************************************************************)
EXTENDS Integers, Sequences, FiniteSets, TLC

PosScale == 100
DegScale == 1000
TrigScale == 100000
TanScale == 1000000
SlopeScale == 10000
IndexScale == 100

\* ---------------------------------------------------------------- Numbers

Fin(i) == [k |-> "fin", v |-> i]
NaN == [k |-> "nan", v |-> 0]
Inf(s) == [k |-> "inf", v |-> s]

IsFin(a) == a.k = "fin"
IsNaN(a) == a.k = "nan"
IsInf(a) == a.k = "inf"

Abs(i) == IF i < 0 THEN -i ELSE i
Sgn(i) == IF i > 0 THEN 1 ELSE IF i < 0 THEN -1 ELSE 0

\* The sign of a Number that is not NaN, as -1, 0 or 1.
FSgn(a) == Sgn(a.v)

\* -a
FNeg(a) == IF IsNaN(a) THEN NaN ELSE [k |-> a.k, v |-> -a.v]

\* Math.abs(a)
FAbs(a) == IF IsNaN(a) THEN NaN ELSE [k |-> a.k, v |-> Abs(a.v)]

\* a + b, both in the same unit.
FAdd(a, b) ==
    IF IsNaN(a) \/ IsNaN(b) THEN NaN
    ELSE IF IsFin(a) /\ IsFin(b) THEN Fin(a.v + b.v)
    ELSE IF IsInf(a) /\ IsInf(b) THEN (IF a.v = b.v THEN a ELSE NaN)
    ELSE IF IsInf(a) THEN a ELSE b

\* a - b, both in the same unit.
FSub(a, b) == FAdd(a, FNeg(b))

\* a < b; false when either is NaN.
FLt(a, b) ==
    /\ ~IsNaN(a)
    /\ ~IsNaN(b)
    /\ IF IsFin(a) /\ IsFin(b) THEN a.v < b.v
       ELSE IF IsInf(a) /\ IsInf(b) THEN a.v < b.v
       ELSE IF IsInf(a) THEN a.v < 0
       ELSE b.v > 0

\* a >= b; false when either is NaN.
FGe(a, b) == ~IsNaN(a) /\ ~IsNaN(b) /\ ~FLt(a, b)

\* a > b; false when either is NaN.
FGt(a, b) == FLt(b, a)

\* Object.is(a, b) on Numbers (signed zeros are not told apart).
SameValue(a, b) == a = b

\* |a| * |b| / SlopeScale on naturals, in parts that stay within 32 bits.
MulParts(a, b) ==
    LET a1 == a \div SlopeScale
        a0 == a % SlopeScale
        b1 == b \div SlopeScale
        b0 == b % SlopeScale
    IN  a1 * b1 * SlopeScale + a1 * b0 + a0 * b1 + (a0 * b0) \div SlopeScale

\* floor(r * SlopeScale / d) for naturals r < d, by long division.
RECURSIVE FracParts(_, _)
FracParts(r, d) ==
    IF d > 20000000 THEN FracParts(r \div 100, d \div 100)
    ELSE LET d1 == (r * 100) \div d
             r1 == (r * 100) % d
         IN  d1 * 100 + (r1 * 100) \div d

\* floor(n * SlopeScale / d) for naturals n and d > 0.
DivParts(n, d) == (n \div d) * SlopeScale + FracParts(n % d, d)

\* floor(a * TanScale / b) for naturals a <= b, b > 0, by long division.
RECURSIVE Ratio(_, _)
Ratio(a, b) ==
    IF b > 20000000 THEN Ratio(a \div 100, b \div 100)
    ELSE IF a = b THEN TanScale
    ELSE LET d1 == (a * 100) \div b
             r1 == (a * 100) % b
             d2 == (r1 * 100) \div b
             r2 == (r1 * 100) % b
         IN  d1 * 10000 + d2 * 100 + (r2 * 100) \div b

\* slope * length: a Number in slope units times one in position units.
FMul(m, x) ==
    IF IsNaN(m) \/ IsNaN(x) THEN NaN
    ELSE IF IsFin(m) /\ IsFin(x)
         THEN Fin(Sgn(m.v) * Sgn(x.v) * MulParts(Abs(m.v), Abs(x.v)))
    ELSE IF FSgn(m) = 0 \/ FSgn(x) = 0 THEN NaN
    ELSE Inf(FSgn(m) * FSgn(x))

\* n / d where the quotient is SlopeScale times finer than n / d in units:
\* a slope from two lengths, or a coordinate from a length and a slope.
\* A zero divisor is the +0 that a difference of equal Numbers yields.
FDiv(n, d) ==
    IF IsNaN(n) \/ IsNaN(d) THEN NaN
    ELSE IF IsInf(n) THEN (IF IsInf(d) THEN NaN
                           ELSE Inf(n.v * (IF d.v < 0 THEN -1 ELSE 1)))
    ELSE IF IsInf(d) THEN Fin(0)
    ELSE IF d.v = 0 THEN (IF n.v = 0 THEN NaN ELSE Inf(Sgn(n.v)))
    ELSE Fin(Sgn(n.v) * Sgn(d.v) * DivParts(Abs(n.v), Abs(d.v)))

\* ----------------------------------------------------------- Trigonometry

SinTab ==
    << 0, 175, 349, 524, 698, 873, 1047, 1222, 1396, 1571, 1745, 1920,
       2094, 2269, 2443, 2618, 2792, 2967, 3141, 3316, 3490, 3664, 3839, 4013,
       4188, 4362, 4536, 4711, 4885, 5059, 5234, 5408, 5582, 5756, 5931, 6105,
       6279, 6453, 6627, 6802, 6976, 7150, 7324, 7498, 7672, 7846, 8020, 8194,
       8368, 8542, 8716, 8889, 9063, 9237, 9411, 9585, 9758, 9932, 10106, 10279,
       10453, 10626, 10800, 10973, 11147, 11320, 11494, 11667, 11840, 12014, 12187, 12360,
       12533, 12706, 12880, 13053, 13226, 13399, 13572, 13744, 13917, 14090, 14263, 14436,
       14608, 14781, 14954, 15126, 15299, 15471, 15643, 15816, 15988, 16160, 16333, 16505,
       16677, 16849, 17021, 17193, 17365, 17537, 17708, 17880, 18052, 18224, 18395, 18567,
       18738, 18910, 19081, 19252, 19423, 19595, 19766, 19937, 20108, 20279, 20450, 20620,
       20791, 20962, 21132, 21303, 21474, 21644, 21814, 21985, 22155, 22325, 22495, 22665,
       22835, 23005, 23175, 23345, 23514, 23684, 23853, 24023, 24192, 24362, 24531, 24700,
       24869, 25038, 25207, 25376, 25545, 25713, 25882, 26050, 26219, 26387, 26556, 26724,
       26892, 27060, 27228, 27396, 27564, 27731, 27899, 28067, 28234, 28402, 28569, 28736,
       28903, 29070, 29237, 29404, 29571, 29737, 29904, 30071, 30237, 30403, 30570, 30736,
       30902, 31068, 31233, 31399, 31565, 31730, 31896, 32061, 32227, 32392, 32557, 32722,
       32887, 33051, 33216, 33381, 33545, 33710, 33874, 34038, 34202, 34366, 34530, 34694,
       34857, 35021, 35184, 35347, 35511, 35674, 35837, 36000, 36162, 36325, 36488, 36650,
       36812, 36975, 37137, 37299, 37461, 37622, 37784, 37946, 38107, 38268, 38430, 38591,
       38752, 38912, 39073, 39234, 39394, 39555, 39715, 39875, 40035, 40195, 40355, 40514,
       40674, 40833, 40992, 41151, 41310, 41469, 41628, 41787, 41945, 42104, 42262, 42420,
       42578, 42736, 42894, 43051, 43209, 43366, 43523, 43680, 43837, 43994, 44151, 44307,
       44464, 44620, 44776, 44932, 45088, 45243, 45399, 45554, 45710, 45865, 46020, 46175,
       46330, 46484, 46639, 46793, 46947, 47101, 47255, 47409, 47562, 47716, 47869, 48022,
       48175, 48328, 48481, 48634, 48786, 48938, 49090, 49242, 49394, 49546, 49697, 49849,
       50000, 50151, 50302, 50453, 50603, 50754, 50904, 51054, 51204, 51354, 51504, 51653,
       51803, 51952, 52101, 52250, 52399, 52547, 52696, 52844, 52992, 53140, 53288, 53435,
       53583, 53730, 53877, 54024, 54171, 54317, 54464, 54610, 54756, 54902, 55048, 55194,
       55339, 55484, 55630, 55775, 55919, 56064, 56208, 56353, 56497, 56641, 56784, 56928,
       57071, 57215, 57358, 57501, 57643, 57786, 57928, 58070, 58212, 58354, 58496, 58637,
       58779, 58920, 59061, 59201, 59342, 59482, 59622, 59763, 59902, 60042, 60182, 60321,
       60460, 60599, 60738, 60876, 61015, 61153, 61291, 61429, 61566, 61704, 61841, 61978,
       62115, 62251, 62388, 62524, 62660, 62796, 62932, 63068, 63203, 63338, 63473, 63608,
       63742, 63877, 64011, 64145, 64279, 64412, 64546, 64679, 64812, 64945, 65077, 65210,
       65342, 65474, 65606, 65738, 65869, 66000, 66131, 66262, 66393, 66523, 66653, 66783,
       66913, 67043, 67172, 67301, 67430, 67559, 67688, 67816, 67944, 68072, 68200, 68327,
       68455, 68582, 68709, 68835, 68962, 69088, 69214, 69340, 69466, 69591, 69717, 69842,
       69966, 70091, 70215, 70339, 70463, 70587, 70711, 70834, 70957, 71080, 71203, 71325,
       71447, 71569, 71691, 71813, 71934, 72055, 72176, 72297, 72417, 72537, 72657, 72777,
       72897, 73016, 73135, 73254, 73373, 73491, 73610, 73728, 73846, 73963, 74080, 74198,
       74314, 74431, 74548, 74664, 74780, 74896, 75011, 75126, 75241, 75356, 75471, 75585,
       75700, 75813, 75927, 76041, 76154, 76267, 76380, 76492, 76604, 76717, 76828, 76940,
       77051, 77162, 77273, 77384, 77494, 77605, 77715, 77824, 77934, 78043, 78152, 78261,
       78369, 78478, 78586, 78694, 78801, 78908, 79016, 79122, 79229, 79335, 79441, 79547,
       79653, 79758, 79864, 79968, 80073, 80178, 80282, 80386, 80489, 80593, 80696, 80799,
       80902, 81004, 81106, 81208, 81310, 81412, 81513, 81614, 81714, 81815, 81915, 82015,
       82115, 82214, 82314, 82413, 82511, 82610, 82708, 82806, 82904, 83001, 83098, 83195,
       83292, 83389, 83485, 83581, 83676, 83772, 83867, 83962, 84057, 84151, 84245, 84339,
       84433, 84526, 84619, 84712, 84805, 84897, 84989, 85081, 85173, 85264, 85355, 85446,
       85536, 85627, 85717, 85806, 85896, 85985, 86074, 86163, 86251, 86340, 86427, 86515,
       86603, 86690, 86777, 86863, 86949, 87036, 87121, 87207, 87292, 87377, 87462, 87546,
       87631, 87715, 87798, 87882, 87965, 88048, 88130, 88213, 88295, 88377, 88458, 88539,
       88620, 88701, 88782, 88862, 88942, 89021, 89101, 89180, 89259, 89337, 89415, 89493,
       89571, 89649, 89726, 89803, 89879, 89956, 90032, 90108, 90183, 90259, 90334, 90408,
       90483, 90557, 90631, 90704, 90778, 90851, 90924, 90996, 91068, 91140, 91212, 91283,
       91355, 91425, 91496, 91566, 91636, 91706, 91775, 91845, 91914, 91982, 92050, 92119,
       92186, 92254, 92321, 92388, 92455, 92521, 92587, 92653, 92718, 92784, 92849, 92913,
       92978, 93042, 93106, 93169, 93232, 93295, 93358, 93420, 93483, 93544, 93606, 93667,
       93728, 93789, 93849, 93909, 93969, 94029, 94088, 94147, 94206, 94264, 94322, 94380,
       94438, 94495, 94552, 94609, 94665, 94721, 94777, 94832, 94888, 94943, 94997, 95052,
       95106, 95159, 95213, 95266, 95319, 95372, 95424, 95476, 95528, 95579, 95630, 95681,
       95732, 95782, 95832, 95882, 95931, 95981, 96029, 96078, 96126, 96174, 96222, 96269,
       96316, 96363, 96410, 96456, 96502, 96547, 96593, 96638, 96682, 96727, 96771, 96815,
       96858, 96902, 96945, 96987, 97030, 97072, 97113, 97155, 97196, 97237, 97278, 97318,
       97358, 97398, 97437, 97476, 97515, 97553, 97592, 97630, 97667, 97705, 97742, 97778,
       97815, 97851, 97887, 97922, 97958, 97992, 98027, 98061, 98096, 98129, 98163, 98196,
       98229, 98261, 98294, 98325, 98357, 98389, 98420, 98450, 98481, 98511, 98541, 98570,
       98600, 98629, 98657, 98686, 98714, 98741, 98769, 98796, 98823, 98849, 98876, 98902,
       98927, 98953, 98978, 99002, 99027, 99051, 99075, 99098, 99122, 99144, 99167, 99189,
       99211, 99233, 99255, 99276, 99297, 99317, 99337, 99357, 99377, 99396, 99415, 99434,
       99452, 99470, 99488, 99506, 99523, 99540, 99556, 99572, 99588, 99604, 99619, 99635,
       99649, 99664, 99678, 99692, 99705, 99719, 99731, 99744, 99756, 99768, 99780, 99792,
       99803, 99813, 99824, 99834, 99844, 99854, 99863, 99872, 99881, 99889, 99897, 99905,
       99912, 99919, 99926, 99933, 99939, 99945, 99951, 99956, 99961, 99966, 99970, 99974,
       99978, 99982, 99985, 99988, 99990, 99993, 99995, 99996, 99998, 99999, 99999, 100000,
       100000 >>

TanTab ==
    << 0, 1745, 3491, 5236, 6981, 8727, 10472, 12218, 13964, 15709, 17455, 19201,
       20947, 22693, 24439, 26186, 27933, 29679, 31426, 33173, 34921, 36668, 38416, 40164,
       41912, 43661, 45410, 47159, 48908, 50658, 52408, 54158, 55909, 57660, 59411, 61163,
       62915, 64667, 66420, 68173, 69927, 71681, 73435, 75190, 76946, 78702, 80458, 82215,
       83972, 85730, 87489, 89248, 91007, 92767, 94528, 96289, 98051, 99813, 101576, 103340,
       105104, 106869, 108635, 110401, 112168, 113936, 115704, 117473, 119243, 121013, 122785, 124557,
       126329, 128103, 129877, 131652, 133428, 135205, 136983, 138761, 140541, 142321, 144102, 145884,
       147667, 149451, 151236, 153022, 154808, 156596, 158384, 160174, 161965, 163756, 165549, 167343,
       169137, 170933, 172730, 174528, 176327, 178127, 179928, 181731, 183534, 185339, 187145, 188952,
       190760, 192570, 194380, 196192, 198005, 199820, 201635, 203452, 205271, 207090, 208911, 210733,
       212557, 214381, 216208, 218035, 219864, 221695, 223526, 225360, 227194, 229031, 230868, 232707,
       234548, 236390, 238234, 240079, 241925, 243774, 245624, 247475, 249328, 251183, 253039, 254897,
       256756, 258618, 260480, 262345, 264211, 266079, 267949, 269821, 271694, 273569, 275446, 277325,
       279205, 281087, 282971, 284857, 286745, 288635, 290527, 292420, 294316, 296213, 298113, 300014,
       301918, 303823, 305731, 307640, 309552, 311465, 313381, 315299, 317219, 319141, 321065, 322991,
       324920, 326850, 328783, 330718, 332656, 334595, 336537, 338481, 340428, 342377, 344328, 346281,
       348237, 350195, 352156, 354119, 356084, 358052, 360022, 361995, 363970, 365948, 367928, 369911,
       371897, 373885, 375875, 377869, 379864, 381863, 383864, 385868, 387874, 389884, 391896, 393910,
       395928, 397948, 399971, 401997, 404026, 406058, 408092, 410130, 412170, 414214, 416260, 418309,
       420361, 422417, 424475, 426536, 428601, 430668, 432739, 434812, 436889, 438969, 441053, 443139,
       445229, 447322, 449418, 451517, 453620, 455726, 457836, 459949, 462065, 464185, 466308, 468434,
       470564, 472698, 474835, 476976, 479120, 481267, 483419, 485574, 487733, 489895, 492061, 494231,
       496404, 498582, 500763, 502948, 505136, 507329, 509525, 511726, 513930, 516138, 518351, 520567,
       522787, 525012, 527240, 529473, 531709, 533950, 536195, 538445, 540698, 542956, 545218, 547484,
       549755, 552030, 554309, 556593, 558881, 561174, 563471, 565773, 568079, 570390, 572705, 575026,
       577350, 579680, 582014, 584353, 586697, 589045, 591398, 593757, 596120, 598488, 600861, 603239,
       605622, 608010, 610403, 612801, 615204, 617613, 620026, 622445, 624869, 627299, 629734, 632174,
       634619, 637070, 639527, 641989, 644456, 646929, 649408, 651892, 654382, 656877, 659379, 661886,
       664398, 666917, 669442, 671972, 674509, 677051, 679599, 682154, 684714, 687281, 689854, 692433,
       695018, 697610, 700208, 702812, 705422, 708039, 710663, 713293, 715930, 718573, 721223, 723879,
       726543, 729213, 731889, 734573, 737264, 739961, 742666, 745377, 748096, 750821, 753554, 756294,
       759041, 761796, 764558, 767327, 770104, 772888, 775680, 778479, 781286, 784100, 786922, 789752,
       792590, 795436, 798290, 801151, 804021, 806898, 809784, 812678, 815580, 818491, 821409, 824336,
       827272, 830216, 833169, 836130, 839100, 842078, 845066, 848062, 851067, 854081, 857104, 860136,
       863177, 866227, 869287, 872356, 875434, 878521, 881619, 884725, 887842, 890967, 894103, 897249,
       900404, 903569, 906745, 909930, 913125, 916331, 919547, 922773, 926010, 929257, 932515, 935783,
       939063, 942352, 945653, 948965, 952287, 955621, 958966, 962322, 965689, 969067, 972458, 975859,
       979272, 982697, 986134, 989582, 993043, 996515, 1000000 >>

RightAngle == 90 * DegScale
TabStep == DegScale \div 10

\* sin of a whole number of table steps in 0 .. 1800 (0 to 180 degrees).
SinAt(i) == IF i <= 900 THEN SinTab[i + 1] ELSE SinTab[1800 - i + 1]

\* TrigScale * sin(a) for a in 0 .. 180 degrees, interpolated in the table.
SinDeg(a) ==
    LET i == a \div TabStep
        f == a % TabStep
    IN  IF f = 0 THEN SinAt(i)
        ELSE SinAt(i) + ((SinAt(i + 1) - SinAt(i)) * f) \div TabStep

\* TrigScale * cos(a) for a in 0 .. 180 degrees.
CosDeg(a) ==
    IF a <= RightAngle THEN SinDeg(RightAngle - a) ELSE -SinDeg(a - RightAngle)

\* Math.sin of an angle given in degrees (the code's deg * PI / 180).
FSin(a) ==
    IF ~IsFin(a) THEN NaN
    ELSE IF a.v < 0 THEN Fin(-SinDeg(-a.v)) ELSE Fin(SinDeg(a.v))

\* Math.cos of an angle given in degrees.
FCos(a) == IF ~IsFin(a) THEN NaN ELSE Fin(CosDeg(Abs(a.v)))

\* The largest index i in lo .. hi with tab[i] <= v (tab is nondecreasing and
\* tab[lo] <= v).
RECURSIVE Search(_, _, _, _)
Search(tab, v, lo, hi) ==
    IF lo = hi THEN lo
    ELSE LET mid == (lo + hi + 1) \div 2
         IN  IF tab[mid] <= v THEN Search(tab, v, mid, hi)
             ELSE Search(tab, v, lo, mid - 1)

\* The angle in 0 .. 90 degrees whose sine is v / TrigScale, 0 <= v <= TrigScale.
AsinDeg(v) ==
    LET i == Search(SinTab, v, 1, 901)
    IN  IF i = 901 THEN RightAngle
        ELSE (i - 1) * TabStep
             + ((v - SinTab[i]) * TabStep) \div (SinTab[i + 1] - SinTab[i])

\* Math.asin, in degrees; NaN outside [-1, 1].
FAsin(s) ==
    IF ~IsFin(s) \/ Abs(s.v) > TrigScale THEN NaN
    ELSE Fin(Sgn(s.v) * AsinDeg(Abs(s.v)))

\* The angle in 0 .. 45 degrees whose tangent is t / TanScale, 0 <= t <= TanScale.
AtanDeg(t) ==
    LET i == Search(TanTab, t, 1, 451)
    IN  IF i = 451 THEN RightAngle \div 2
        ELSE (i - 1) * TabStep
             + ((t - TanTab[i]) * TabStep) \div (TanTab[i + 1] - TanTab[i])

\* atan(a / b) in degrees for naturals a, b, not both zero.
AtanOf(a, b) ==
    IF a <= b THEN AtanDeg(Ratio(a, b)) ELSE RightAngle - AtanDeg(Ratio(b, a))

\* Math.abs(Math.atan2(y, x)) in degrees, 0 .. 180.
FAtan2Abs(y, x) ==
    IF IsNaN(y) \/ IsNaN(x) THEN NaN
    ELSE IF IsInf(x)
         THEN (IF x.v > 0 THEN (IF IsInf(y) THEN Fin(RightAngle \div 2) ELSE Fin(0))
               ELSE (IF IsInf(y) THEN Fin(RightAngle + RightAngle \div 2)
                     ELSE Fin(2 * RightAngle)))
    ELSE IF IsInf(y) THEN Fin(RightAngle)
    ELSE IF y.v = 0 THEN (IF x.v >= 0 THEN Fin(0) ELSE Fin(2 * RightAngle))
    ELSE IF x.v = 0 THEN Fin(RightAngle)
    ELSE IF x.v > 0 THEN Fin(AtanOf(Abs(y.v), x.v))
    ELSE Fin(2 * RightAngle - AtanOf(Abs(y.v), -x.v))

\* parseFloat(deg.toFixed(1)): a tenth of a degree, halves rounded away from 0.
ToFixed1(a) ==
    IF ~IsFin(a) THEN a
    ELSE Fin(Sgn(a.v) * ((Abs(a.v) + TabStep \div 2) \div TabStep) * TabStep)

\* ------------------------------------------------------------ Configuration

\* const waterLevelY = 450, in pixels.
waterLevelY == 450

\* const airIndex = 1.0.
airIndex == 1

\* The length, in pixels, of the rays that realPosition and
\* updateApparentFromReal intersect.
RayLength == 1000

\* The hit radius of isNearPoint, in pixels.
NearThreshold == 15

\* A pixel count as a Number in position units.
Px(i) == Fin(i * PosScale)

WaterY == Px(waterLevelY)

Point(x, y) == [x |-> x, y |-> y]

\* The null that realPosition returns, as a point that is no Number.
Null == Point([k |-> "null", v |-> 0], [k |-> "null", v |-> 0])

IsNull(p) == p.x.k = "null"

\* A point whose two coordinates are finite Numbers.
IsFinitePoint(p) == IsFin(p.x) /\ IsFin(p.y)

\* ------------------------------------------------------------------ State

VARIABLES
    refractiveIndex,    \* ref(1.33), in 1/IndexScale
    leftPoint,          \* ref({x: 250, y: waterLevelY})
    rightPoint,         \* ref({x: 550, y: waterLevelY})
    apparentPosition,   \* ref({x: 400, y: 200})
    lockRealPosition,   \* ref(true)
    leftAngleDeg,       \* ref(30)
    rightAngleDeg,      \* ref(30)
    viewportOffset,     \* ref({x: 0, y: 0}), whole pixels
    dragging,           \* ref(null): "null" or the name of what is dragged
    dragStart,          \* ref({x: 0, y: 0}), whole pixels
    updatingFromDrag,   \* ref(false)
    updatingFromAngleChange, \* ref(false), never written
    mounted,            \* whether the onMounted hook has run
    queue,              \* the scheduler's pending watcher jobs, in order
    watched,            \* each watcher's old value: what its last run read
    last,               \* history: the last event and what it was given
    runs,               \* history: runs of the angle watcher's callback since
                        \* the last event
    events              \* history: the number of events delivered

vars == << refractiveIndex, leftPoint, rightPoint, apparentPosition,
           lockRealPosition, leftAngleDeg, rightAngleDeg, viewportOffset,
           dragging, dragStart, updatingFromDrag, updatingFromAngleChange,
           mounted, queue, watched, last, runs, events >>

\* --------------------------------------------------------- Refraction solver

\* computed criticalAngle: asin(airIndex / refractiveIndex), in degrees.
criticalAngle(n) == FAsin(Fin((airIndex * IndexScale * TrigScale) \div n))

\* computed leftExceedsCritical / rightExceedsCritical.
exceedsCritical(angle, n) == FGe(angle, criticalAngle(n))

\* computed leftRefractedAngle / rightRefractedAngle (water to air).
refractedAngle(angle, n) ==
    IF exceedsCritical(angle, n) THEN NaN
    ELSE LET s == FSin(angle)
         IN  IF ~IsFin(s) THEN NaN
             ELSE FAsin(Fin(Sgn(s.v) * ((n * Abs(s.v)) \div (airIndex * IndexScale))))

\* asin((airIndex / refractiveIndex) * sin(incident)) (air to water).
waterAngle(incident, n) ==
    LET s == FSin(incident)
    IN  IF ~IsFin(s) THEN NaN
        ELSE FAsin(Fin(Sgn(s.v) * ((airIndex * IndexScale * Abs(s.v)) \div n)))

\* The template's v-if of the "Total internal reflection" lines.
showsTIR(angle, n) == FGt(angle, criticalAngle(n))

\* ------------------------------------------------------ Geometry primitives

\* length * t for a length in pixels and a sine or cosine t, in position units.
Along(length, t) ==
    IF ~IsFin(t) THEN NaN
    ELSE Fin(Sgn(t.v) * ((length * Abs(t.v)) \div (TrigScale \div PosScale)))

calculateRayPoint(startPoint, angleDeg, length, isLeft) ==
    LET dx == Along(length, FSin(angleDeg))
    IN  Point(FAdd(startPoint.x, IF isLeft THEN FNeg(dx) ELSE dx),
              FSub(startPoint.y, Along(length, FCos(angleDeg))))

\* The intersection of the line through p1 and ray1 with the one through p2
\* and ray2, as realPosition and updateApparentFromReal both compute it.
\* The slope of the line from a point to a point on its ray:
\* (ray.y - p.y) / (ray.x - p.x).
raySlope(p, ray) == FDiv(FSub(ray.y, p.y), FSub(ray.x, p.x))

intersect(p1, ray1, p2, ray2) ==
    LET leftSlope == raySlope(p1, ray1)
        rightSlope == raySlope(p2, ray2)
        x == FDiv(FSub(FSub(FMul(leftSlope, p1.x), p1.y),
                       FSub(FMul(rightSlope, p2.x), p2.y)),
                  FSub(leftSlope, rightSlope))
        y == FAdd(FMul(leftSlope, FSub(x, p1.x)), p1.y)
    IN  Point(x, y)

\* ------------------------------------------------------ Optical state model

\* computed realPosition, from the refs it reads.
\* The points on the two refracted rays that realPosition intersects, each
\* mirrored by the side of its refraction point the apparent position is on.
refractedRayPoints(la, ra, n, ap, lp, rp) ==
    LET leftIsLeft == FLt(ap.x, lp.x)
        rightIsLeft == FLt(ap.x, rp.x)
    IN  << calculateRayPoint(lp, refractedAngle(la, n), RayLength, leftIsLeft),
           calculateRayPoint(rp, refractedAngle(ra, n), RayLength, rightIsLeft) >>

realPositionOf(la, ra, n, ap, lp, rp) ==
    IF exceedsCritical(la, n) \/ exceedsCritical(ra, n) THEN Null
    ELSE LET rays == refractedRayPoints(la, ra, n, ap, lp, rp)
         IN  intersect(lp, rays[1], rp, rays[2])

\* The apparent position that updateApparentFromReal leaves, from the refs it
\* reads: ap itself on each of its early returns.
updateApparentFromReal(lock, la, ra, n, ap, lp, rp) ==
    IF ~lock THEN ap
    ELSE LET realPos == realPositionOf(la, ra, n, ap, lp, rp)
         IN  IF \/ IsNull(realPos)
                \/ FGe(realPos.y, WaterY)
                \/ exceedsCritical(la, n)
                \/ exceedsCritical(ra, n)
             THEN ap
             ELSE LET leftDx == FSub(realPos.x, lp.x)
                      leftDy == FSub(realPos.y, lp.y)
                      rightDx == FSub(realPos.x, rp.x)
                      rightDy == FSub(realPos.y, rp.y)
                      leftIncident == FAtan2Abs(FAbs(leftDx), FAbs(leftDy))
                      rightIncident == FAtan2Abs(FAbs(rightDx), FAbs(rightDy))
                      leftWater == waterAngle(leftIncident, n)
                      rightWater == waterAngle(rightIncident, n)
                      leftIsLeft == FLt(leftDx, Fin(0))
                      rightIsLeft == FLt(rightDx, Fin(0))
                      leftWaterPoint ==
                          calculateRayPoint(lp, leftWater, RayLength, leftIsLeft)
                      rightWaterPoint ==
                          calculateRayPoint(rp, rightWater, RayLength, rightIsLeft)
                  IN  intersect(lp, leftWaterPoint, rp, rightWaterPoint)

\* The angle of the vector from a refraction point to a target, from the
\* normal: parseFloat((abs(atan2(dx, -dy)) * 180 / PI).toFixed(1)).
angleFromVector(target, point) ==
    ToFixed1(FAtan2Abs(FSub(target.x, point.x), FNeg(FSub(target.y, point.y))))

\* updateAnglesFromPositions with each angle taken at the other refraction
\* point.
updateAnglesFromPositionsSwapped(ap, lp, rp) ==
    << angleFromVector(ap, rp), angleFromVector(ap, lp) >>

\* The two angles that updateAnglesFromPositions writes.
updateAnglesFromPositions(ap, lp, rp) ==
    << angleFromVector(ap, lp), angleFromVector(ap, rp) >>

\* The two angles that updateAnglesFromRealPosition(realPos) writes.
updateAnglesFromRealPosition(realPos, n, lp, rp) ==
    LET incident(point) ==
            FAtan2Abs(FSub(realPos.x, point.x), FNeg(FSub(realPos.y, point.y)))
    IN  << ToFixed1(waterAngle(incident(lp), n)),
           ToFixed1(waterAngle(incident(rp), n)) >>


\* Pointer positions (clientX - rect.left, clientY - rect.top), whole pixels.
ScreenXs == {100, 400}
ScreenYs == {200, 450}

\* Values typed into the angle fields (v-model.number), in 1/DegScale degree:
\* 0, 30.05 (no multiple of a tenth), 95 (above the clamp), and the value of
\* the critical angle itself.
TypedAngles == {Fin(0), Fin(30050), Fin(95000)}

\* The values an angle field is given: the typed ones and the critical angle.
AngleInputs(n) == TypedAngles \cup {criticalAngle(n)}

\* Values typed into the refractive index field, in 1/IndexScale.
IndexInputs == {100, 133, 200}

\* The number of events (pointer, field and checkbox events) of a run.
MaxEvents == 4

\* The viewport is panned only while its offset stays within this many pixels.
MaxPan == 300

\* ----------------------------------------------------------- Vue scheduler

\* queueJob: a job already pending is not queued twice.
queueJob(q, job) ==
    IF \E i \in 1..Len(q) : q[i] = job THEN q ELSE Append(q, job)

\* The scheduler's effect of a write of new to a ref holding old, watched by
\* job: the ref triggers only when the value changed.
trigger(q, job, old, new) == IF SameValue(old, new) THEN q ELSE queueJob(q, job)

\* Math.max(0, Math.min(89.9, v)), in 1/DegScale degree.
clampAngle(v) ==
    IF IsNaN(v) THEN NaN
    ELSE IF FLt(v, Fin(0)) THEN Fin(0)
    ELSE IF FGt(v, Fin(89900)) THEN Fin(89900)
    ELSE v

\* ------------------------------------------------------ Coordinate transforms

screenToWorld(sx, sy) ==
    Point(Px(sx - viewportOffset.x), Px(sy - viewportOffset.y))

\* isNearPoint(point) of handleMouseDown for the pointer at (sx, sy): the
\* distance on screen is below the threshold. False for a point with a
\* coordinate that is NaN or infinite.
isNearPoint(point, sx, sy) ==
    /\ IsFinitePoint(point)
    /\ LET dx == Abs(sx * PosScale - (point.x.v + viewportOffset.x * PosScale))
           dy == Abs(sy * PosScale - (point.y.v + viewportOffset.y * PosScale))
           t == NearThreshold * PosScale
       IN  dx < t /\ dy < t /\ dx * dx + dy * dy < t * t

\* computed realPosition in the current state.
realPosition ==
    realPositionOf(leftAngleDeg, rightAngleDeg, refractiveIndex,
                   apparentPosition, leftPoint, rightPoint)

\* ------------------------------------------------------------------- Init

Init ==
    /\ refractiveIndex = 133
    /\ leftPoint = Point(Px(250), WaterY)
    /\ rightPoint = Point(Px(550), WaterY)
    /\ apparentPosition = Point(Px(400), Px(200))
    /\ lockRealPosition = TRUE
    /\ leftAngleDeg = Fin(30 * DegScale)
    /\ rightAngleDeg = Fin(30 * DegScale)
    /\ viewportOffset = [x |-> 0, y |-> 0]
    /\ dragging = "null"
    /\ dragStart = [x |-> 0, y |-> 0]
    /\ updatingFromDrag = FALSE
    /\ updatingFromAngleChange = FALSE
    /\ mounted = FALSE
    /\ queue = << >>
    /\ watched = [angles |-> << Fin(30 * DegScale), Fin(30 * DegScale) >>,
                  index |-> 133, lock |-> TRUE]
    /\ last = [op |-> "setup", target |-> "null", p |-> Point(Fin(0), Fin(0))]
    /\ runs = 0
    /\ events = 0

\* No callback is running and none is pending: an event can be delivered.
Idle == mounted /\ queue = << >>

\* An event is delivered: the event loop takes it when it is idle.
Deliver ==
    /\ Idle
    /\ events < MaxEvents
    /\ events' = events + 1
    /\ runs' = 0
    /\ UNCHANGED updatingFromAngleChange

\* ------------------------------------------------------------------ Events

\* onMounted: the viewport is centred and the angles are initialised from the
\* positions.
Mount ==
    /\ ~mounted
    /\ mounted' = TRUE
    /\ viewportOffset' = [x |-> 0, y |-> 0]
    /\ LET a == updateAnglesFromPositions(apparentPosition, leftPoint, rightPoint)
       IN  /\ leftAngleDeg' = a[1]
           /\ rightAngleDeg' = a[2]
           /\ queue' = trigger(trigger(queue, "angles", leftAngleDeg, a[1]),
                               "angles", rightAngleDeg, a[2])
    /\ last' = [op |-> "mount", target |-> "null", p |-> Point(Fin(0), Fin(0))]
    /\ runs' = 0
    /\ UNCHANGED << refractiveIndex, leftPoint, rightPoint, apparentPosition,
                    lockRealPosition, dragging, dragStart, updatingFromDrag,
                    updatingFromAngleChange, watched, events >>

\* The screen positions a pointer can be pressed at: the grid, and the pixel
\* nearest to each point that is drawn.
DownPositions ==
    LET onScreen(pt) ==
            IF IsFinitePoint(pt)
            THEN {<< (pt.x.v + PosScale \div 2) \div PosScale + viewportOffset.x,
                     (pt.y.v + PosScale \div 2) \div PosScale + viewportOffset.y >>}
            ELSE {}
    IN  (ScreenXs \X ScreenYs)
        \cup onScreen(leftPoint) \cup onScreen(rightPoint)
        \cup onScreen(apparentPosition)
        \cup (IF IsNull(realPosition) THEN {} ELSE onScreen(realPosition))

handleMouseDown(sx, sy) ==
    /\ Deliver
    /\ dragStart' = [x |-> sx, y |-> sy]
    /\ dragging' =
           IF isNearPoint(leftPoint, sx, sy) THEN "leftPoint"
           ELSE IF isNearPoint(rightPoint, sx, sy) THEN "rightPoint"
           ELSE IF isNearPoint(apparentPosition, sx, sy) THEN "apparentPosition"
           ELSE IF ~IsNull(realPosition) /\ isNearPoint(realPosition, sx, sy)
                THEN "realPosition"
           ELSE "viewport"
    /\ last' = [op |-> "mousedown", target |-> dragging', p |-> Point(Fin(0), Fin(0))]
    /\ UNCHANGED << refractiveIndex, leftPoint, rightPoint, apparentPosition,
                    lockRealPosition, leftAngleDeg, rightAngleDeg, viewportOffset,
                    updatingFromDrag, mounted, queue, watched >>

\* handleMouseMove while nothing is dragged: the early return.
MoveNothing(sx, sy) ==
    /\ dragging = "null"
    /\ UNCHANGED << refractiveIndex, leftPoint, rightPoint, apparentPosition,
                    lockRealPosition, leftAngleDeg, rightAngleDeg, viewportOffset,
                    dragging, dragStart, updatingFromDrag, mounted, queue, watched >>

\* handleMouseMove while the viewport is dragged: pan.
MoveViewport(sx, sy) ==
    /\ dragging = "viewport"
    /\ LET off == [x |-> viewportOffset.x + (sx - dragStart.x),
                   y |-> viewportOffset.y + (sy - dragStart.y)]
       IN  /\ Abs(off.x) <= MaxPan
           /\ Abs(off.y) <= MaxPan
           /\ viewportOffset' = off
    /\ dragStart' = [x |-> sx, y |-> sy]
    /\ UNCHANGED << refractiveIndex, leftPoint, rightPoint, apparentPosition,
                    lockRealPosition, leftAngleDeg, rightAngleDeg, dragging,
                    updatingFromDrag, mounted, queue, watched >>

\* DragAngles without the release of updatingFromDrag after the angles are
\* written.
DragAnglesKeepingFlag(ap, lp, rp) ==
    LET a == updateAnglesFromPositions(ap, lp, rp)
    IN  /\ leftAngleDeg' = a[1]
        /\ rightAngleDeg' = a[2]
        /\ queue' = trigger(trigger(queue, "angles", leftAngleDeg, a[1]),
                            "angles", rightAngleDeg, a[2])
        /\ updatingFromDrag' = TRUE

\* The writes of updateAnglesFromPositions() between the two writes of
\* updatingFromDrag, given the positions it reads.
DragAngles(ap, lp, rp) ==
    LET a == updateAnglesFromPositions(ap, lp, rp)
    IN  /\ leftAngleDeg' = a[1]
        /\ rightAngleDeg' = a[2]
        /\ queue' = trigger(trigger(queue, "angles", leftAngleDeg, a[1]),
                            "angles", rightAngleDeg, a[2])
        /\ updatingFromDrag' = FALSE

\* MovePoint with the dragged point following the pointer's y as well.
MovePointFollowingPointer(sx, sy) ==
    /\ dragging \in {"leftPoint", "rightPoint"}
    /\ LET pt == screenToWorld(sx, sy)
       IN  /\ leftPoint' = IF dragging = "leftPoint" THEN pt ELSE leftPoint
           /\ rightPoint' = IF dragging = "rightPoint" THEN pt ELSE rightPoint
    /\ DragAngles(apparentPosition, leftPoint', rightPoint')
    /\ UNCHANGED << refractiveIndex, apparentPosition, lockRealPosition,
                    viewportOffset, dragging, dragStart, mounted, watched >>

\* handleMouseMove while a refraction point is dragged.
MovePoint(sx, sy) ==
    /\ dragging \in {"leftPoint", "rightPoint"}
    /\ LET pt == Point(screenToWorld(sx, sy).x, WaterY)
       IN  /\ leftPoint' = IF dragging = "leftPoint" THEN pt ELSE leftPoint
           /\ rightPoint' = IF dragging = "rightPoint" THEN pt ELSE rightPoint
    /\ DragAngles(apparentPosition, leftPoint', rightPoint')
    /\ UNCHANGED << refractiveIndex, apparentPosition, lockRealPosition,
                    viewportOffset, dragging, dragStart, mounted, watched >>

\* handleMouseMove while the apparent position is dragged.
MoveApparent(sx, sy) ==
    /\ dragging = "apparentPosition"
    /\ LET w == screenToWorld(sx, sy)
       IN  IF FLt(w.y, WaterY)
           THEN /\ apparentPosition' = w
                /\ DragAngles(w, leftPoint, rightPoint)
           ELSE UNCHANGED << apparentPosition, leftAngleDeg, rightAngleDeg,
                             queue, updatingFromDrag >>
    /\ UNCHANGED << refractiveIndex, leftPoint, rightPoint, lockRealPosition,
                    viewportOffset, dragging, dragStart, mounted, watched >>

\* MoveReal without the test of lockRealPosition.
MoveRealIgnoringLock(sx, sy) ==
    /\ dragging = "realPosition"
    /\ LET realPos == screenToWorld(sx, sy)
       IN  IF FLt(realPos.y, WaterY)
           THEN LET a == updateAnglesFromRealPosition(realPos, refractiveIndex,
                                                      leftPoint, rightPoint)
                IN  /\ leftAngleDeg' = a[1]
                    /\ rightAngleDeg' = a[2]
                    /\ queue' = trigger(trigger(queue, "angles", leftAngleDeg, a[1]),
                                        "angles", rightAngleDeg, a[2])
                    /\ apparentPosition' =
                           updateApparentFromReal(lockRealPosition, a[1], a[2],
                                                  refractiveIndex, apparentPosition,
                                                  leftPoint, rightPoint)
                    /\ updatingFromDrag' = FALSE
           ELSE UNCHANGED << apparentPosition, leftAngleDeg, rightAngleDeg,
                             queue, updatingFromDrag >>
    /\ UNCHANGED << refractiveIndex, leftPoint, rightPoint, lockRealPosition,
                    viewportOffset, dragging, dragStart, mounted, watched >>

\* handleMouseMove while the real position is dragged.
MoveReal(sx, sy) ==
    /\ dragging = "realPosition"
    /\ LET realPos == screenToWorld(sx, sy)
       IN  IF FLt(realPos.y, WaterY) /\ lockRealPosition
           THEN LET a == updateAnglesFromRealPosition(realPos, refractiveIndex,
                                                      leftPoint, rightPoint)
                IN  /\ leftAngleDeg' = a[1]
                    /\ rightAngleDeg' = a[2]
                    /\ queue' = trigger(trigger(queue, "angles", leftAngleDeg, a[1]),
                                        "angles", rightAngleDeg, a[2])
                    /\ apparentPosition' =
                           updateApparentFromReal(lockRealPosition, a[1], a[2],
                                                  refractiveIndex, apparentPosition,
                                                  leftPoint, rightPoint)
                    /\ updatingFromDrag' = FALSE
           ELSE UNCHANGED << apparentPosition, leftAngleDeg, rightAngleDeg,
                             queue, updatingFromDrag >>
    /\ UNCHANGED << refractiveIndex, leftPoint, rightPoint, lockRealPosition,
                    viewportOffset, dragging, dragStart, mounted, watched >>

handleMouseMove(sx, sy) ==
    /\ Deliver
    /\ \/ MoveNothing(sx, sy)
       \/ MoveViewport(sx, sy)
       \/ MovePoint(sx, sy)
       \/ MoveApparent(sx, sy)
       \/ MoveReal(sx, sy)
    /\ last' = [op |-> "mousemove", target |-> dragging,
                 p |-> IF dragging \in {"null", "viewport"} THEN Point(Fin(0), Fin(0))
                       ELSE screenToWorld(sx, sy)]

\* handleMouseUp, on mouseup and on mouseleave.
handleMouseUp ==
    /\ Deliver
    /\ dragging' = "null"
    /\ last' = [op |-> "mouseup", target |-> dragging, p |-> Point(Fin(0), Fin(0))]
    /\ UNCHANGED << refractiveIndex, leftPoint, rightPoint, apparentPosition,
                    lockRealPosition, leftAngleDeg, rightAngleDeg, viewportOffset,
                    dragStart, updatingFromDrag, mounted, queue, watched >>

\* v-model.number="leftAngleDeg" / "rightAngleDeg": a value typed in a field.
EditAngle(side, v) ==
    /\ Deliver
    /\ IF side = "left"
       THEN /\ leftAngleDeg' = v
            /\ queue' = trigger(queue, "angles", leftAngleDeg, v)
            /\ UNCHANGED rightAngleDeg
       ELSE /\ rightAngleDeg' = v
            /\ queue' = trigger(queue, "angles", rightAngleDeg, v)
            /\ UNCHANGED leftAngleDeg
    /\ last' = [op |-> "editAngle", target |-> side, p |-> Point(v, v)]
    /\ UNCHANGED << refractiveIndex, leftPoint, rightPoint, apparentPosition,
                    lockRealPosition, viewportOffset, dragging, dragStart,
                    updatingFromDrag, mounted, watched >>

\* v-model.number="refractiveIndex".
EditIndex(v) ==
    /\ Deliver
    /\ refractiveIndex' = v
    /\ queue' = IF v = refractiveIndex THEN queue ELSE queueJob(queue, "index")
    /\ last' = [op |-> "editIndex", target |-> "null", p |-> Point(Fin(v), Fin(v))]
    /\ UNCHANGED << leftPoint, rightPoint, apparentPosition, lockRealPosition,
                    leftAngleDeg, rightAngleDeg, viewportOffset, dragging,
                    dragStart, updatingFromDrag, mounted, watched >>

\* v-model="lockRealPosition": the checkbox is clicked.
ToggleLock ==
    /\ Deliver
    /\ lockRealPosition' = ~lockRealPosition
    /\ queue' = queueJob(queue, "lock")
    /\ last' = [op |-> "toggle", target |-> "null", p |-> Point(Fin(0), Fin(0))]
    /\ UNCHANGED << refractiveIndex, leftPoint, rightPoint, apparentPosition,
                    leftAngleDeg, rightAngleDeg, viewportOffset, dragging,
                    dragStart, updatingFromDrag, mounted, watched >>

\* --------------------------------------------------------------- Watchers

\* The job of watch([leftAngleDeg, rightAngleDeg], ...): the callback runs when
\* a source differs from what the last run read; a write of the callback to
\* its own sources queues the job again.
WatchAngles ==
    /\ queue # << >>
    /\ Head(queue) = "angles"
    /\ watched' = [watched EXCEPT !.angles = << leftAngleDeg, rightAngleDeg >>]
    /\ IF /\ SameValue(leftAngleDeg, watched.angles[1])
          /\ SameValue(rightAngleDeg, watched.angles[2])
       THEN /\ queue' = Tail(queue)
            /\ UNCHANGED << leftAngleDeg, rightAngleDeg, apparentPosition, runs >>
       ELSE IF updatingFromDrag
       THEN /\ queue' = Tail(queue)
            /\ UNCHANGED << leftAngleDeg, rightAngleDeg, apparentPosition, runs >>
       ELSE LET l == clampAngle(leftAngleDeg)
                r == clampAngle(rightAngleDeg)
            IN  /\ leftAngleDeg' = l
                /\ rightAngleDeg' = r
                /\ queue' = trigger(trigger(Tail(queue), "angles", leftAngleDeg, l),
                                    "angles", rightAngleDeg, r)
                /\ apparentPosition' =
                       updateApparentFromReal(lockRealPosition, l, r, refractiveIndex,
                                              apparentPosition, leftPoint, rightPoint)
                /\ runs' = runs + 1
    /\ UNCHANGED << refractiveIndex, leftPoint, rightPoint, lockRealPosition,
                    viewportOffset, dragging, dragStart, updatingFromDrag,
                    updatingFromAngleChange, mounted, last, events >>

\* WatchIndex with the angles recomputed from the positions as well.
WatchIndexRecomputingAngles ==
    /\ queue # << >>
    /\ Head(queue) = "index"
    /\ watched' = [watched EXCEPT !.index = refractiveIndex]
    /\ apparentPosition' =
           IF refractiveIndex # watched.index /\ lockRealPosition
           THEN updateApparentFromReal(lockRealPosition, leftAngleDeg, rightAngleDeg,
                                       refractiveIndex, apparentPosition,
                                       leftPoint, rightPoint)
           ELSE apparentPosition
    /\ LET a == updateAnglesFromPositions(apparentPosition', leftPoint, rightPoint)
       IN  /\ leftAngleDeg' = a[1]
           /\ rightAngleDeg' = a[2]
           /\ queue' = trigger(trigger(Tail(queue), "angles", leftAngleDeg, a[1]),
                               "angles", rightAngleDeg, a[2])
    /\ UNCHANGED << refractiveIndex, leftPoint, rightPoint, lockRealPosition,
                    viewportOffset, dragging, dragStart, updatingFromDrag,
                    updatingFromAngleChange, mounted, last, runs, events >>

\* The job of watch(refractiveIndex, ...).
WatchIndex ==
    /\ queue # << >>
    /\ Head(queue) = "index"
    /\ queue' = Tail(queue)
    /\ watched' = [watched EXCEPT !.index = refractiveIndex]
    /\ apparentPosition' =
           IF refractiveIndex # watched.index /\ lockRealPosition
           THEN updateApparentFromReal(lockRealPosition, leftAngleDeg, rightAngleDeg,
                                       refractiveIndex, apparentPosition,
                                       leftPoint, rightPoint)
           ELSE apparentPosition
    /\ UNCHANGED << refractiveIndex, leftPoint, rightPoint, lockRealPosition,
                    leftAngleDeg, rightAngleDeg, viewportOffset, dragging,
                    dragStart, updatingFromDrag, updatingFromAngleChange,
                    mounted, last, runs, events >>

\* The job of watch(lockRealPosition, ...).
WatchLock ==
    /\ queue # << >>
    /\ Head(queue) = "lock"
    /\ queue' = Tail(queue)
    /\ watched' = [watched EXCEPT !.lock = lockRealPosition]
    /\ apparentPosition' =
           IF lockRealPosition # watched.lock
           THEN updateApparentFromReal(lockRealPosition, leftAngleDeg, rightAngleDeg,
                                       refractiveIndex, apparentPosition,
                                       leftPoint, rightPoint)
           ELSE apparentPosition
    /\ UNCHANGED << refractiveIndex, leftPoint, rightPoint, lockRealPosition,
                    leftAngleDeg, rightAngleDeg, viewportOffset, dragging,
                    dragStart, updatingFromDrag, updatingFromAngleChange,
                    mounted, last, runs, events >>

Next ==
    \/ Mount
    \/ \E m \in DownPositions : handleMouseDown(m[1], m[2])
    \/ \E sx \in ScreenXs, sy \in ScreenYs : handleMouseMove(sx, sy)
    \/ handleMouseUp
    \/ \E side \in {"left", "right"}, v \in AngleInputs(refractiveIndex) :
           EditAngle(side, v)
    \/ \E v \in IndexInputs : EditIndex(v)
    \/ ToggleLock
    \/ WatchAngles
    \/ WatchIndex
    \/ WatchLock

Spec == Init /\ [][Next]_vars

\* ----------------------------------------------------------------- Claims

\* The last event was a pointer move that dragged one of the four points.
PointDrag ==
    /\ last.op = "mousemove"
    /\ last.target \in {"leftPoint", "rightPoint", "apparentPosition", "realPosition"}

\* The last event was a pointer move that dragged the apparent position to a
\* target above the interface.
AcceptedApparentDrag ==
    /\ last.op = "mousemove"
    /\ last.target = "apparentPosition"
    /\ FLt(last.p.y, WaterY)

\* The last event was a pointer move that dragged the real position to a
\* target above the interface, with the coupling mode on.
AcceptedRealDrag ==
    /\ last.op = "mousemove"
    /\ last.target = "realPosition"
    /\ FLt(last.p.y, WaterY)
    /\ lockRealPosition

\* C1: the callback of the angle watcher never runs as a consequence of the
\* writes a drag handler makes to the angles, neither during the handler nor
\* after it returned; and after the apparent position is dragged to a point p
\* above the interface with the coupling mode on, the apparent position is p
\* once the event is fully processed.
C1_DragDoesNotRunAngleWatcher ==
    /\ PointDrag => runs = 0
    /\ (Idle /\ AcceptedApparentDrag /\ lockRealPosition)
           => apparentPosition = last.p

\* C3: after the real position is dragged to p (coupling mode on, p above the
\* interface, no total internal reflection), realPosition lies on the same
\* side of each refraction point as p, and the apparent position is the one
\* derived from the real position mirrored by p's sides.
C3_RealPositionOnTargetSide ==
    (AcceptedRealDrag /\ ~IsNull(realPosition))
        => /\ FLt(realPosition.x, leftPoint.x) <=> FLt(last.p.x, leftPoint.x)
           /\ FLt(realPosition.x, rightPoint.x) <=> FLt(last.p.x, rightPoint.x)
           /\ apparentPosition =
                  updateApparentFromReal(TRUE, leftAngleDeg, rightAngleDeg,
                                         refractiveIndex, last.p, leftPoint,
                                         rightPoint)

\* C2 as stated: whenever the coupling mode is off and every event has been
\* fully processed, each angle is the angle-from-vector of the apparent
\* position relative to its refraction point (checked where the apparent
\* position is finite).
C2_AnglesFollowApparent ==
    (Idle /\ ~lockRealPosition /\ IsFinitePoint(apparentPosition))
        => /\ leftAngleDeg = angleFromVector(apparentPosition, leftPoint)
           /\ rightAngleDeg = angleFromVector(apparentPosition, rightPoint)

\* The last event dragged a refraction point, or dragged the apparent
\* position to a target above the interface.
PositionDrag ==
    /\ last.op = "mousemove"
    /\ \/ last.target \in {"leftPoint", "rightPoint"}
       \/ AcceptedApparentDrag

\* C2 as amended: with the coupling mode off, once a drag of a refraction
\* point or of the apparent position is fully processed, each angle is the
\* angle-from-vector of the apparent position relative to its refraction
\* point, clamped to [0, 89.9].
C2_AnglesFollowApparentAfterDrag ==
    (Idle /\ ~lockRealPosition /\ PositionDrag)
        => /\ leftAngleDeg = clampAngle(angleFromVector(apparentPosition, leftPoint))
           /\ rightAngleDeg = clampAngle(angleFromVector(apparentPosition, rightPoint))

\* With the coupling mode off the apparent position was dragged, the drag
\* changed the angles and the angle watcher has run.
C2_Witness ==
    /\ Idle
    /\ ~lockRealPosition
    /\ AcceptedApparentDrag
    /\ apparentPosition = last.p
    /\ runs = 1

\* The slopes of the two rays that realPosition intersects, in the current
\* state.
RealSlopes ==
    LET rays == refractedRayPoints(leftAngleDeg, rightAngleDeg, refractiveIndex,
                                   apparentPosition, leftPoint, rightPoint)
    IN  << raySlope(leftPoint, rays[1]), raySlope(rightPoint, rays[2]) >>

\* C4: when the two rays that realPosition intersects have equal slopes
\* (here: finite ones, from a finite apparent position), realPosition is null.
C4_ParallelRaysYieldNull ==
    (/\ IsFinitePoint(apparentPosition)
     /\ IsFin(RealSlopes[1])
     /\ IsFin(RealSlopes[2])
     /\ RealSlopes[1] = RealSlopes[2])
        => IsNull(realPosition)

\* C5: the apparent position always has two finite coordinates, and
\* updateApparentFromReal leaves it unchanged when realPosition has a
\* coordinate that is NaN or infinite.
C5_NoInvalidPropagation ==
    /\ IsFinitePoint(apparentPosition)
    /\ (~IsNull(realPosition) /\ ~IsFinitePoint(realPosition))
           => updateApparentFromReal(lockRealPosition, leftAngleDeg, rightAngleDeg,
                                     refractiveIndex, apparentPosition, leftPoint,
                                     rightPoint) = apparentPosition

\* C6: for a refractive index above 1, a side whose angle is at or beyond the
\* critical angle shows its total internal reflection line and realPosition is
\* null; with both angles strictly below it, no such line is shown.
C6_TIRIndicationsAgree ==
    refractiveIndex > airIndex * IndexScale
        => /\ exceedsCritical(leftAngleDeg, refractiveIndex)
                  => /\ showsTIR(leftAngleDeg, refractiveIndex)
                     /\ IsNull(realPosition)
           /\ exceedsCritical(rightAngleDeg, refractiveIndex)
                  => /\ showsTIR(rightAngleDeg, refractiveIndex)
                     /\ IsNull(realPosition)
           /\ (/\ FLt(leftAngleDeg, criticalAngle(refractiveIndex))
               /\ FLt(rightAngleDeg, criticalAngle(refractiveIndex)))
                  => /\ ~showsTIR(leftAngleDeg, refractiveIndex)
                     /\ ~showsTIR(rightAngleDeg, refractiveIndex)

\* C7: the watcher of the coupling mode, run after a toggle in either
\* direction, sets the apparent position to the one derived from the current
\* real position whenever that is present and above the interface.
C7_ToggleRecomputesApparent ==
    [][(/\ queue # << >>
        /\ Head(queue) = "lock"
        /\ ~IsNull(realPosition)
        /\ FLt(realPosition.y, WaterY))
           => apparentPosition' =
                  updateApparentFromReal(TRUE, leftAngleDeg, rightAngleDeg,
                                         refractiveIndex, apparentPosition,
                                         leftPoint, rightPoint)]_vars

\* C8: a pointer move that drags the real position while the coupling mode
\* is off, or to a target at or below the interface, changes neither
\* refraction point, neither angle, nor the refractive index, the apparent
\* position or the coupling mode, and queues no watcher job.
C8_RejectedRealDragIsNoOp ==
    [][(/\ Idle
        /\ dragging = "realPosition"
        /\ last'.op = "mousemove"
        /\ (~lockRealPosition \/ ~FLt(last'.p.y, WaterY)))
           => /\ UNCHANGED << leftPoint, rightPoint, leftAngleDeg, rightAngleDeg,
                              refractiveIndex, apparentPosition, lockRealPosition >>
              /\ queue' = << >>]_vars

\* The real position was dragged to a target above the interface while the
\* coupling mode was off.
C8_Witness ==
    /\ last.op = "mousemove"
    /\ last.target = "realPosition"
    /\ FLt(last.p.y, WaterY)
    /\ ~lockRealPosition

\* C9: an edit of the refractive index, and the watcher job it queues, change
\* neither refraction point, neither angle nor the coupling mode, and change
\* the apparent position only when the coupling mode is on.
C9_IndexEditFrame ==
    [][last'.op = "editIndex"
           => /\ UNCHANGED << leftPoint, rightPoint, leftAngleDeg, rightAngleDeg,
                              lockRealPosition >>
              /\ apparentPosition' # apparentPosition => lockRealPosition]_vars

\* The refractive index was edited with the coupling mode on, and its watcher
\* is about to move the apparent position by more than a pixel.
C9_Witness ==
    /\ last.op = "editIndex"
    /\ queue = << "index" >>
    /\ lockRealPosition
    /\ IsFinitePoint(apparentPosition)
    /\ LET a == updateApparentFromReal(lockRealPosition, leftAngleDeg,
                                       rightAngleDeg, refractiveIndex,
                                       apparentPosition, leftPoint, rightPoint)
       IN  IsFinitePoint(a) /\ Abs(a.x.v - apparentPosition.x.v) > PosScale

\* C10: once an event is fully processed both angles are numbers in [0, 90),
\* and in [0, 89.9] after an angle field was edited.
C10_AnglesInRange ==
    Idle => /\ IsFin(leftAngleDeg)
            /\ IsFin(rightAngleDeg)
            /\ 0 <= leftAngleDeg.v /\ leftAngleDeg.v < RightAngle
            /\ 0 <= rightAngleDeg.v /\ rightAngleDeg.v < RightAngle
            /\ last.op = "editAngle"
                   => /\ leftAngleDeg.v <= 89900
                      /\ rightAngleDeg.v <= 89900

\* C11: with the coupling mode on, no side in total internal reflection and
\* a finite apparent position A derived by a fully processed angle edit, the
\* angles that handleMouseMove writes when the apparent position is dragged
\* to A are the angles the edit left.
C11_ReconciliationIdempotent ==
    (/\ Idle
     /\ last.op = "editAngle"
     /\ lockRealPosition
     /\ runs >= 1
     /\ ~exceedsCritical(leftAngleDeg, refractiveIndex)
     /\ ~exceedsCritical(rightAngleDeg, refractiveIndex)
     /\ IsFinitePoint(apparentPosition)
     /\ FLt(apparentPosition.y, WaterY))
        => updateAnglesFromPositions(apparentPosition, leftPoint, rightPoint)
               = << leftAngleDeg, rightAngleDeg >>

\* C12: between two events the callback of the angle watcher runs at most
\* once; its own writes to the angles and to the apparent position never
\* make it run again.
C12_AngleWatcherRunsOnce == runs <= 1

\* C13: updatingFromDrag is false whenever no handler is executing, whichever
\* path the last handleMouseMove took.
C13_SuppressFlagScoped == ~updatingFromDrag

\* A drag of the apparent position to a target at or below the interface, or
\* a drag of the real position with the coupling mode off, was rejected.
C13_Witness ==
    /\ last.op = "mousemove"
    /\ \/ last.target = "apparentPosition" /\ ~FLt(last.p.y, WaterY)
       \/ last.target = "realPosition" /\ ~lockRealPosition
    /\ ~updatingFromDrag

\* C14: both refraction points lie on the interface in every state, and a
\* refraction point changes only in a pointer move that drags that point.
C14_PointsOnInterface ==
    /\ [](leftPoint.y = WaterY /\ rightPoint.y = WaterY)
    /\ [][/\ leftPoint' # leftPoint
                => dragging = "leftPoint" /\ last'.op = "mousemove"
          /\ rightPoint' # rightPoint
                => dragging = "rightPoint" /\ last'.op = "mousemove"]_vars

\* The left refraction point was dragged with the pointer above the
\* interface, and moved along the interface to the pointer's x.
C14_Witness ==
    /\ last.op = "mousemove"
    /\ last.target = "leftPoint"
    /\ FLt(last.p.y, WaterY)
    /\ leftPoint.x = last.p.x
    /\ leftPoint.x # Px(250)

====
